---- MODULE Spec2Model ----
\* DCe cancellation Lambda: the store-lookup handler (lambada_handler.py) and the
\* allow-list envelope handler (src/dce_cancel/handler.py), their validators,
\* and the two downstream collaborators (queue and status store).
EXTENDS Integers, Sequences, FiniteSets, TLC

VARIABLES
    environ,    \* os.environ of the deployment (fixed after Init)
    clock,      \* wall clock, in minutes
    uuidCount,  \* number of uuid4() values generated so far
    req,        \* per invocation: handler, event, position, locals, response
    accessIndex,\* the access table queried by _authorize_client, in key order
    enqueued,   \* every message the queue accepted, in order
    store       \* status table: set of items, at most one per (pk, sk)

vars == <<environ, accessIndex, clock, uuidCount, req, enqueued, store>>

\* ---------------------------------------------------------------- bounds
NReq == 2
MaxClock == 2
DeadlineMinutes == 1

Reqs == 1..NReq

\* ---------------------------------------------------------------- JSON values
\* A JSON / Python value: t is its type, s the text of the value as a sequence
\* of atoms (for a string: its characters; otherwise the text str() gives),
\* n its number (numbers), its truth (booleans) or its size (lists, dicts).
Null == [t |-> "null", s |-> <<"None">>, n |-> 0]
Str(toks) == [t |-> "str", s |-> toks, n |-> 0]
Num(k, text) == [t |-> "num", s |-> <<text>>, n |-> k]
False_ == [t |-> "bool", s |-> <<"False">>, n |-> 0]
True_ == [t |-> "bool", s |-> <<"True">>, n |-> 1]
EmptyList == [t |-> "list", s |-> <<"[]">>, n |-> 0]
List1 == [t |-> "list", s |-> <<"['x']">>, n |-> 1]
EmptyDict == [t |-> "dict", s |-> <<"{}">>, n |-> 0]
Dict1 == [t |-> "dict", s |-> <<"{'state': 'RS'}">>, n |-> 1]

\* Python truthiness (`if not x`)
Truthy(v) ==
    CASE v.t = "null" -> FALSE
      [] v.t = "str" -> Len(v.s) > 0
      [] v.t = "num" -> v.n # 0
      [] v.t = "bool" -> v.n = 1
      [] OTHER -> v.n > 0

IsStr(v) == v.t = "str"

\* isinstance(v, int): bool is a subclass of int
IsInt(v) == v.t \in {"num", "bool"}

\* str(v)
PyStr(v) == [t |-> "str", s |-> v.s, n |-> 0]

\* a or b
Or(a, b) == IF Truthy(a) THEN a ELSE b

\* ---------------------------------------------------------------- strings
IsSpace(c) == c = " "

RECURSIVE LStrip(_)
LStrip(s) == IF s # <<>> /\ IsSpace(Head(s)) THEN LStrip(Tail(s)) ELSE s

RECURSIVE RStrip(_)
RStrip(s) ==
    IF s # <<>> /\ IsSpace(s[Len(s)]) THEN RStrip(SubSeq(s, 1, Len(s) - 1)) ELSE s

\* str.strip()
Strip(s) == RStrip(LStrip(s))

\* str.startswith(prefix)
StartsWith(s, prefix) ==
    Len(s) >= Len(prefix) /\ SubSeq(s, 1, Len(prefix)) = prefix

\* s.split(" ", 1)[1] for an s that holds a space: the text after the first one
AfterFirstSpace(s) ==
    LET i == CHOOSE k \in 1..Len(s) : IsSpace(s[k]) /\ \A j \in 1..(k - 1) : ~IsSpace(s[j])
    IN SubSeq(s, i + 1, Len(s))

\* str.lower() on the header names of the model
Lower(name) ==
    CASE name \in {"Client-Id", "CLIENT-ID", "client-id"} -> "client-id"
      [] name \in {"client_id", "Client_Id"} -> "client_id"
      [] name \in {"clientid", "ClientId"} -> "clientid"
      [] name \in {"x-client-id", "X-Client-Id"} -> "x-client-id"
      [] name \in {"Authorization", "authorization", "AUTHORIZATION"} -> "authorization"
      [] name \in {"X-Correlation-Id", "x-correlation-id"} -> "x-correlation-id"
      [] OTHER -> name

\* ---------------------------------------------------------------- dicts
\* A headers dict is a sequence of [name, val] entries with distinct names, in
\* insertion order.  DictGet is dict.get(name): None when the key is absent.
RECURSIVE DictGet(_, _)
DictGet(d, name) ==
    IF d = <<>> THEN Null
    ELSE IF Head(d).name = name THEN Head(d).val
    ELSE DictGet(Tail(d), name)

DictHas(d, name) == \E i \in 1..Len(d) : d[i].name = name

\* {k.lower(): v for k, v in headers.items()}: a later entry whose lowered name
\* is already present overwrites the value and keeps the first position
RECURSIVE DictPut(_, _, _)
DictPut(d, name, val) ==
    IF d = <<>> THEN <<[name |-> name, val |-> val]>>
    ELSE IF Head(d).name = name THEN <<[name |-> name, val |-> val]>> \o Tail(d)
    ELSE <<Head(d)>> \o DictPut(Tail(d), name, val)

RECURSIVE NormalizeHeaders(_, _)
NormalizeHeaders(d, acc) ==
    IF d = <<>> THEN acc
    ELSE NormalizeHeaders(Tail(d), DictPut(acc, Lower(Head(d).name), Head(d).val))

\* ---------------------------------------------------------------- exceptions
NoExc == [kind |-> "none", msg |-> "", status_code |-> 0]
Raised(kind, msg) == [kind |-> kind, msg |-> msg, status_code |-> 0]

\* class ValidationError(Exception)
ValidationError(msg) == Raised("ValidationError", msg)

\* class AuthorizationError(Exception): status_code defaults to 403
AuthorizationErrorWith(msg, status_code) ==
    [kind |-> "AuthorizationError", msg |-> msg, status_code |-> status_code]

AuthorizationError(msg) == AuthorizationErrorWith(msg, 403)

\* botocore ClientError / BotoCoreError raised by a downstream call
ClientError(msg) == Raised("ClientError", msg)

\* ---------------------------------------------------------------- configuration
DefaultDeadlineMinutes == 1440

\* EnvConfig.load(): reads os.environ; the required names must be set.
\* ALLOWED_CLIENT_IDS is the comma-separated text, given as its pieces.
EnvConfigLoad(env) ==
    LET ids == {Strip(env.ALLOWED_CLIENT_IDS[i]) : i \in 1..Len(env.ALLOWED_CLIENT_IDS)}
                 \ {<<>>}
    IN IF ~Truthy(env.SQS_QUEUE_URL) \/ ~Truthy(env.DCE_TABLE_NAME)
       THEN [exc |-> Raised("EnvironmentError", "Missing required environment variables"),
             api_auth_token |-> Null, allowed_client_ids_set |-> FALSE,
             allowed_client_ids |-> {}, cancellation_deadline_minutes |-> 0]
       ELSE [exc |-> NoExc,
             api_auth_token |-> env.API_AUTH_TOKEN,
             allowed_client_ids_set |-> ids # {},
             allowed_client_ids |-> ids,
             cancellation_deadline_minutes |->
                 IF env.CANCELLATION_DEADLINE_MINUTES.t = "null"
                 THEN DefaultDeadlineMinutes
                 ELSE env.CANCELLATION_DEADLINE_MINUTES.n]

\* config.config.EnvConfig.load() of lambada_handler: the same environment names
\* (it adds the name of the access table, which the model does not read)
LambadaEnvConfigLoad(env) == EnvConfigLoad(env)

\* ---------------------------------------------------------------- events
\* A payload dict, by the keys either handler reads; a key that is absent reads
\* as None, which is what dict.get gives for it.
NoEventObj == [t |-> "null", code |-> Null, schemaVersion |-> Null,
               sequenceNumber |-> Null, reason |-> Null, protocol |-> Null]
NoIssuer == [t |-> "null", cnpj |-> Null]
EmptyObj ==
    [id |-> Null, cancelReason |-> Null, correlationId |-> Null,
     eventCancelDate |-> Null, dceId |-> Null, event |-> NoEventObj,
     timestamp |-> Null, issuer |-> NoIssuer, metadata |-> Null, clientId |-> Null]

\* What json.loads or _parse_event yields: a dict (obj) or another JSON value
DictDoc(obj) == [isDict |-> TRUE, obj |-> obj]
NonDictDoc == [isDict |-> FALSE, obj |-> EmptyObj]

\* json.loads(text): text is "empty", "malformed" or "json" (then doc is its value)
JsonLoads(text, doc) ==
    IF text = "malformed"
    THEN [exc |-> Raised("JSONDecodeError", "Expecting value"), doc |-> NonDictDoc]
    ELSE [exc |-> NoExc, doc |-> doc]

\* _parse_event(event)
ParseEvent(event) ==
    IF event.isDict /\ event.hasBody /\ event.body.t = "str"
    THEN IF event.body.text = "empty"
         THEN JsonLoads("json", DictDoc(EmptyObj))
         ELSE JsonLoads(event.body.text, event.body.doc)
    ELSE IF event.isDict /\ event.hasBody /\ event.body.t = "dict"
    THEN [exc |-> NoExc, doc |-> event.body.doc]
    ELSE IF event.isDict
    THEN [exc |-> NoExc, doc |-> DictDoc(event.top)]
    ELSE [exc |-> NoExc, doc |-> DictDoc(EmptyObj)]

\* event.get("headers") if isinstance(event, dict) else None, and whether the
\* result is a dict
HeadersIsDict(event) == event.isDict /\ event.headersKind = "dict"

\* _authenticate_request(event, config)
AuthenticateRequest(event, cfg) ==
    LET token == cfg.api_auth_token
        auth_header == Or(DictGet(event.headers, "Authorization"),
                          DictGet(event.headers, "authorization"))
        provided ==
            IF HeadersIsDict(event) /\ Truthy(auth_header)
               /\ StartsWith(auth_header.s, <<"Bearer", " ">>)
            THEN Str(Strip(AfterFirstSpace(auth_header.s)))
            ELSE Null
    IN IF ~Truthy(token) THEN NoExc
       ELSE IF HeadersIsDict(event) /\ Truthy(auth_header) /\ ~IsStr(auth_header)
       THEN Raised("AttributeError", "object has no attribute 'startswith'")
       ELSE IF provided # token
       THEN AuthorizationErrorWith("Unauthorized", 401)
       ELSE NoExc


ClientIdAliases == <<"client-id", "client_id", "clientid", "x-client-id">>

\* _extract_client_id rejecting only a header that is missing (`is None`)
ExtractClientIdNoneOnly(event) ==
    LET normalized_headers ==
            IF HeadersIsDict(event) THEN NormalizeHeaders(event.headers, <<>>) ELSE <<>>
        present == {i \in 1..Len(ClientIdAliases) :
                        DictHas(normalized_headers, ClientIdAliases[i])}
        client_id ==
            IF present = {} THEN Null
            ELSE DictGet(normalized_headers,
                         ClientIdAliases[CHOOSE i \in present : \A j \in present : i <= j])
    IN IF client_id.t = "null"
       THEN [exc |-> AuthorizationErrorWith("clientId header is required", 401),
             client_id |-> Null]
       ELSE [exc |-> NoExc, client_id |-> client_id]

\* _extract_client_id(event, config): the first alias present decides
ExtractClientId(event) ==
    LET normalized_headers ==
            IF HeadersIsDict(event) THEN NormalizeHeaders(event.headers, <<>>) ELSE <<>>
        present == {i \in 1..Len(ClientIdAliases) :
                        DictHas(normalized_headers, ClientIdAliases[i])}
        client_id ==
            IF present = {} THEN Null
            ELSE DictGet(normalized_headers,
                         ClientIdAliases[CHOOSE i \in present : \A j \in present : i <= j])
    IN IF ~Truthy(client_id) \/ ~IsStr(client_id)
       THEN [exc |-> AuthorizationErrorWith("clientId header is required", 401),
             client_id |-> Null]
       ELSE [exc |-> NoExc, client_id |-> client_id]

\* ---------------------------------------------------------------- validation
EVENT_CODE == Str(<<"110111">>)
ALLOWED_EVENT_CODES == {<<"110111">>}
ALLOWED_SCHEMA_VERSIONS == {<<"1.00">>, <<"1.01">>}

\* datetime.isoformat() of a timezone-aware instant
IsoFormat(instant) == [t |-> "str", s |-> <<"iso+offset">>, n |-> instant]

\* What a validator hands back: the attributes either ValidatedPayload carries
NoValidated ==
    [document_id |-> Null, event_cancel_date |-> Null, cancel_reason |-> Null,
     dce_id |-> Null, event |-> NoEventObj, timestamp |-> Null, timestamp_dt |-> 0,
     issuer |-> NoIssuer, metadata |-> Null, client_id |-> Null]

\* The dataclass domain.models.payload.ValidatedPayload (no field has a default)
ModelsPayloadFields ==
    {"dce_id", "event", "timestamp", "timestamp_dt", "issuer", "metadata", "client_id"}

\* The dataclass dce_cancel.validation.ValidatedPayload
EnvelopePayloadFields ==
    {"dce_id", "event", "timestamp", "timestamp_dt", "issuer", "metadata", "client_id"}

\* The keyword arguments domain.services.validation passes to ValidatedPayload
MinimalKeywords ==
    {"document_id", "event_cancel_date", "event_cancel_date_dt", "cancel_reason",
     "client_id"}

\* dataclass __init__(**keywords): TypeError on an unexpected or a missing one
DataclassInit(fields, keywords) ==
    IF keywords \subseteq fields /\ fields \subseteq keywords THEN NoExc
    ELSE IF ~(keywords \subseteq fields)
    THEN Raised("TypeError", "__init__() got an unexpected keyword argument")
    ELSE Raised("TypeError", "__init__() missing required positional arguments")

\* validate_payload without the check of `id`
ValidatePayloadMinimalNoIdCheck(doc, now) ==
    LET document_id == doc.obj.id
        cancel_reason == doc.obj.cancelReason
        built == DataclassInit(ModelsPayloadFields, MinimalKeywords)
    IN IF ~doc.isDict
       THEN [exc |-> ValidationError("payload must be a JSON object"), v |-> NoValidated]
       ELSE IF ~Truthy(cancel_reason)
       THEN [exc |-> ValidationError("cancelReason is required"), v |-> NoValidated]
       ELSE IF ~IsStr(cancel_reason)
       THEN [exc |-> ValidationError("cancelReason must be a string"), v |-> NoValidated]
       ELSE [exc |-> built, v |-> NoValidated]

\* validate_payload without the isinstance check of `cancelReason`
ValidatePayloadMinimalNoTypeCheck(doc, now) ==
    LET document_id == doc.obj.id
        cancel_reason == doc.obj.cancelReason
        built == DataclassInit(ModelsPayloadFields, MinimalKeywords)
    IN IF ~doc.isDict
       THEN [exc |-> ValidationError("payload must be a JSON object"), v |-> NoValidated]
       ELSE IF ~Truthy(document_id)
       THEN [exc |-> ValidationError("id is required"), v |-> NoValidated]
       ELSE IF ~Truthy(cancel_reason)
       THEN [exc |-> ValidationError("cancelReason is required"), v |-> NoValidated]
       ELSE [exc |-> built, v |-> NoValidated]

\* domain.services.validation.validate_payload(payload, deadline): minimal shape
ValidatePayloadMinimal(doc, now) ==
    LET document_id == doc.obj.id
        cancel_reason == doc.obj.cancelReason
        built == DataclassInit(ModelsPayloadFields, MinimalKeywords)
    IN IF ~doc.isDict
       THEN [exc |-> ValidationError("payload must be a JSON object"), v |-> NoValidated]
       ELSE IF ~Truthy(document_id)
       THEN [exc |-> ValidationError("id is required"), v |-> NoValidated]
       ELSE IF ~Truthy(cancel_reason)
       THEN [exc |-> ValidationError("cancelReason is required"), v |-> NoValidated]
       ELSE IF ~IsStr(cancel_reason)
       THEN [exc |-> ValidationError("cancelReason must be a string"), v |-> NoValidated]
       ELSE IF built # NoExc
       THEN [exc |-> built, v |-> NoValidated]
       ELSE [exc |-> NoExc,
             v |-> [NoValidated EXCEPT !.document_id = PyStr(document_id),
                                       !.event_cancel_date = IsoFormat(now),
                                       !.timestamp_dt = now,
                                       !.cancel_reason = PyStr(cancel_reason),
                                       !.client_id = Str(<<>>)]]

\* _ensure_isoformat(value): value.s names the layout of the text, value.n the
\* instant it denotes; strptime raises TypeError on a value that is no string
EnsureIsoformat(value) ==
    IF ~IsStr(value)
    THEN [exc |-> Raised("TypeError", "strptime() argument 1 must be str"), dt |-> 0]
    ELSE IF value.s \in {<<"iso+offset">>, <<"iso.frac+offset">>, <<"isoZ">>, <<"iso.fracZ">>}
    THEN [exc |-> NoExc, dt |-> value.n]
    ELSE [exc |-> ValidationError("timestamp must be ISO 8601 with timezone information"),
          dt |-> 0]

\* the deadline test rejecting the instant of the deadline as well
WindowExpiredInclusive(timestamp_dt, cancellation_deadline_minutes, now) ==
    timestamp_dt <= now - cancellation_deadline_minutes

\* deadline = now - timedelta(minutes=cancellation_deadline_minutes);
\* timestamp_dt < deadline (instants are counted in minutes)
WindowExpired(timestamp_dt, cancellation_deadline_minutes, now) ==
    timestamp_dt < now - cancellation_deadline_minutes

\* dce_cancel.validation.validate_payload(payload, deadline): envelope shape
ValidatePayloadEnvelope(doc, cancellation_deadline_minutes, now) ==
    LET dce_id == doc.obj.dceId
        event == doc.obj.event
        timestamp == doc.obj.timestamp
        issuer == doc.obj.issuer
        client_id == doc.obj.clientId
        parsed == EnsureIsoformat(timestamp)
        event_code == IF event.code.t # "null" THEN PyStr(event.code) ELSE Null
        metadata == Or(doc.obj.metadata, EmptyDict)
        built == DataclassInit(EnvelopePayloadFields, EnvelopePayloadFields)
        Fail(e) == [exc |-> e, v |-> NoValidated]
    IN IF ~doc.isDict THEN Fail(ValidationError("payload must be a JSON object"))
       ELSE IF ~Truthy(dce_id) THEN Fail(ValidationError("dceId is required"))
       ELSE IF event.t # "dict" THEN Fail(ValidationError("event must be an object"))
       ELSE IF ~Truthy(timestamp) THEN Fail(ValidationError("timestamp is required"))
       ELSE IF parsed.exc # NoExc THEN Fail(parsed.exc)
       ELSE IF ~Truthy(client_id) \/ ~IsStr(client_id)
       THEN Fail(ValidationError("clientId is required"))
       ELSE IF ~(event_code.t = "str" /\ event_code.s \in ALLOWED_EVENT_CODES)
       THEN Fail(ValidationError("event.code must be one of 110111"))
       ELSE IF event.schemaVersion.t \in {"list", "dict"}
       THEN Fail(Raised("TypeError", "unhashable type"))
       ELSE IF ~(IsStr(event.schemaVersion) /\ event.schemaVersion.s \in ALLOWED_SCHEMA_VERSIONS)
       THEN Fail(ValidationError("event.schemaVersion must be one of 1.00, 1.01"))
       ELSE IF ~IsInt(event.sequenceNumber) \/ event.sequenceNumber.n < 1
       THEN Fail(ValidationError("event.sequenceNumber must be a positive integer"))
       ELSE IF ~Truthy(event.reason) THEN Fail(ValidationError("event.reason is required"))
       ELSE IF ~Truthy(event.protocol) THEN Fail(ValidationError("event.protocol is required"))
       ELSE IF issuer.t # "dict" THEN Fail(ValidationError("issuer must be an object"))
       ELSE IF ~Truthy(issuer.cnpj) THEN Fail(ValidationError("issuer.cnpj is required"))
       ELSE IF metadata.t # "dict"
       THEN Fail(ValidationError("metadata, when provided, must be an object"))
       ELSE IF WindowExpired(parsed.dt, cancellation_deadline_minutes, now)
       THEN Fail(ValidationError("Cancellation window expired for the provided timestamp"))
       ELSE IF built # NoExc THEN Fail(built)
       ELSE [exc |-> NoExc,
             v |-> [NoValidated EXCEPT
                      !.dce_id = PyStr(dce_id),
                      !.event = [t |-> "dict", code |-> event_code,
                                 schemaVersion |-> event.schemaVersion,
                                 sequenceNumber |-> event.sequenceNumber,
                                 reason |-> PyStr(event.reason),
                                 protocol |-> PyStr(event.protocol)],
                      !.timestamp = timestamp,
                      !.timestamp_dt = parsed.dt,
                      !.issuer = issuer,
                      !.metadata = metadata,
                      !.client_id = client_id]]

\* ---------------------------------------------------------------- authorization
\* table.query(KeyConditionExpression=Key("accessKey").eq(access_key),
\*             FilterExpression=Attr("clientId").eq(client_id), Limit=limit):
\* the store reads at most `limit` items of the key, in key order, and only
\* then drops the ones the filter rejects
Query(index, access_key, client_id, limit) ==
    LET OfKey(item) == item.accessKey = access_key
        OfClient(item) == item.clientId = client_id
        read == SelectSeq(index, OfKey)
        evaluated == SubSeq(read, 1, IF Len(read) < limit THEN Len(read) ELSE limit)
    IN SelectSeq(evaluated, OfClient)

\* _authorize_client(access_key, client_id, table_name)
AuthorizeClient(access_key, client_id, index, queryRaises) ==
    IF queryRaises THEN ClientError("Query failed")
    ELSE IF Query(index, access_key.s, client_id.s, 1) = <<>>
    THEN AuthorizationError("clientId is not authorized to cancel this DCe")
    ELSE NoExc

\* the allow-list test with the `not` lost
AllowListRejectsInverted(cfg, client_id) ==
    cfg.allowed_client_ids_set /\ client_id.s \in cfg.allowed_client_ids

\* the allow-list test without the guard for a set that is not configured
AllowListRejectsUnconfigured(cfg, client_id) ==
    client_id.s \notin cfg.allowed_client_ids

\* config.allowed_client_ids and validated.client_id not in config.allowed_client_ids
AllowListRejects(cfg, client_id) ==
    cfg.allowed_client_ids_set /\ client_id.s \notin cfg.allowed_client_ids

\* ---------------------------------------------------------------- correlation id
\* str(uuid.uuid4()): the k-th identifier generated
Uuid4(k) == [t |-> "str", s |-> <<"uuid4">>, n |-> k]

\* (event.get("headers", {}).get("X-Correlation-Id") if isinstance(event, dict)
\*  else None) or payload_dict.get("correlationId") or str(uuid.uuid4())
CorrelationId(event, doc, uuids) ==
    LET from_header ==
            IF event.isDict /\ event.headersKind = "dict"
            THEN DictGet(event.headers, "X-Correlation-Id")
            ELSE Null
        from_payload == doc.obj.correlationId
    IN IF event.isDict /\ event.headersKind = "null"
       THEN [exc |-> Raised("AttributeError", "'NoneType' object has no attribute 'get'"),
             correlation_id |-> Null, uuids |-> 0]
       ELSE IF Truthy(from_header)
       THEN [exc |-> NoExc, correlation_id |-> from_header, uuids |-> 0]
       ELSE IF Truthy(from_payload)
       THEN [exc |-> NoExc, correlation_id |-> from_payload, uuids |-> 0]
       ELSE [exc |-> NoExc, correlation_id |-> Uuid4(uuids + 1), uuids |-> 1]

\* ---------------------------------------------------------------- dispatch payloads
\* A dict handed to the dispatcher, by its keys (keys names the ones it has)
NoPayload ==
    [keys |-> {}, id |-> Null, eventCancelDate |-> Null, cancelReason |-> Null,
     eventCode |-> Null, dceId |-> Null, event |-> NoEventObj, timestamp |-> Null,
     issuer |-> NoIssuer, metadata |-> Null, clientId |-> Null, correlationId |-> Null]

\* enqueue_payload of lambada_handler.handler
MinimalEnqueuePayload(validated) ==
    [NoPayload EXCEPT
        !.keys = {"id", "eventCancelDate", "cancelReason", "clientId", "eventCode"},
        !.id = validated.document_id,
        !.eventCancelDate = validated.event_cancel_date,
        !.cancelReason = validated.cancel_reason,
        !.clientId = validated.client_id,
        !.eventCode = EVENT_CODE]

\* enqueue_payload of dce_cancel.handler.handler
EnvelopeEnqueuePayload(validated) ==
    [NoPayload EXCEPT
        !.keys = {"dceId", "event", "timestamp", "issuer", "metadata", "clientId"},
        !.dceId = validated.dce_id,
        !.event = validated.event,
        !.timestamp = validated.timestamp,
        !.issuer = validated.issuer,
        !.metadata = validated.metadata,
        !.clientId = validated.client_id]

\* send_message whose attribute is taken from the payload, not from the argument
MessageAttributeFromPayload(payload, correlation_id) ==
    [MessageBody |-> [payload EXCEPT !.keys = payload.keys \cup {"correlationId"},
                                     !.correlationId = correlation_id],
     CorrelationId |-> [StringValue |-> payload.correlationId, DataType |-> "String"]]

\* The send_message call of _enqueue_cancellation(config, payload, correlation_id)
Message(payload, correlation_id) ==
    [MessageBody |-> [payload EXCEPT !.keys = payload.keys \cup {"correlationId"},
                                     !.correlationId = correlation_id],
     CorrelationId |-> [StringValue |-> correlation_id, DataType |-> "String"]]

\* The update_item call of _upsert_cancellation_status, as the item it leaves
UpsertItem(h, payload, correlation_id, now) ==
    [pk |-> <<"DCE#">> \o (IF h = "lambada" THEN payload.id.s ELSE payload.dceId.s),
     sk |-> "LATEST",
     status |-> "CANCELLATION_REQUESTED",
     correlationId |-> correlation_id,
     eventCode |-> IF h = "lambada" THEN EVENT_CODE ELSE payload.event.code,
     updatedAt |-> IsoFormat(now),
     eventTimestamp |-> IF h = "lambada" THEN payload.eventCancelDate ELSE payload.timestamp,
     requestedAt |-> IsoFormat(now),
     cancellationReason |-> IF h = "lambada" THEN payload.cancelReason ELSE payload.event.reason,
     operationStatus |-> "RECEIVED",
     clientId |-> payload.clientId]

\* update_item with ConditionExpression attribute_not_exists: a prior item stays
UpdateItemIfAbsent(table, item) ==
    IF \E i \in table : i.pk = item.pk /\ i.sk = item.sk THEN table ELSE table \cup {item}

\* a write that replaces the content of the table by the item
UpdateItemReplaceAll(table, item) == {item}

\* update_item on the table: the item of that key is created or overwritten
UpdateItem(table, item) ==
    {i \in table : ~(i.pk = item.pk /\ i.sk = item.sk)} \cup {item}

\* ---------------------------------------------------------------- responses
NoResponse ==
    [statusCode |-> 0, error |-> "", message |-> "", dceId |-> Null, correlationId |-> Null]

\* _build_response(201, {...}) of the success path
SuccessResponse(dce_id, correlation_id) ==
    [statusCode |-> 201, error |-> "", message |-> "Cancellation received",
     dceId |-> dce_id, correlationId |-> correlation_id]

\* except clauses that answer every AuthorizationError with 403
ExceptionResponseAlways403(exc) ==
    CASE exc.kind = "AuthorizationError" ->
            [NoResponse EXCEPT !.statusCode = 403, !.error = exc.msg]
      [] exc.kind = "ValidationError" ->
            [NoResponse EXCEPT !.statusCode = 400, !.error = exc.msg]
      [] exc.kind = "ClientError" ->
            [NoResponse EXCEPT !.statusCode = 502,
                               !.error = "Failed to dispatch cancellation event"]
      [] OTHER -> [NoResponse EXCEPT !.statusCode = 500, !.error = exc.msg]

\* The except clauses of handler
ExceptionResponse(exc) ==
    CASE exc.kind = "AuthorizationError" ->
            [NoResponse EXCEPT !.statusCode = exc.status_code, !.error = exc.msg]
      [] exc.kind = "ValidationError" ->
            [NoResponse EXCEPT !.statusCode = 400, !.error = exc.msg]
      [] exc.kind = "ClientError" ->
            [NoResponse EXCEPT !.statusCode = 502,
                               !.error = "Failed to dispatch cancellation event"]
      [] OTHER -> [NoResponse EXCEPT !.statusCode = 500, !.error = exc.msg]

\* ---------------------------------------------------------------- handlers
\* The part of handler() that runs before the first queue or store write: the
\* steps it ran (trace), the exception that ended it (NoExc when it reached the
\* dispatch) and the locals the dispatch uses.
Local(trace, exc) ==
    [trace |-> trace, exc |-> exc, client_id |-> Null, validated |-> NoValidated,
     correlation_id |-> Null, uuids |-> 0, enqueue_payload |-> NoPayload,
     dce_id |-> Null]

\* a handler that validates the payload before it looks at the credentials
LambadaLocalValidateFirst(event, env, index, now, uuids, queryRaises) ==
    LET p == ParseEvent(event)
        cfg == LambadaEnvConfigLoad(env)
        v == ValidatePayloadMinimal(p.doc, now)
        a == AuthenticateRequest(event, cfg)
        c == ExtractClientId(event)
    IN IF p.exc # NoExc THEN Local(<<"parse">>, p.exc)
       ELSE IF cfg.exc # NoExc THEN Local(<<"parse", "config">>, cfg.exc)
       ELSE IF v.exc # NoExc THEN Local(<<"parse", "config", "validate">>, v.exc)
       ELSE IF a # NoExc THEN Local(<<"parse", "config", "validate", "authenticate">>, a)
       ELSE Local(<<"parse", "config", "validate", "authenticate", "extract_client_id">>,
                  c.exc)

\* lambada_handler.handler up to the dispatch
LambadaLocal(event, env, index, now, uuids, queryRaises) ==
    LET p == ParseEvent(event)
        cfg == LambadaEnvConfigLoad(env)
        a == AuthenticateRequest(event, cfg)
        c == ExtractClientId(event)
        v == ValidatePayloadMinimal(p.doc, now)
        validated == [v.v EXCEPT !.client_id = c.client_id]
        z == AuthorizeClient(validated.document_id, validated.client_id, index, queryRaises)
        k == CorrelationId(event, p.doc, uuids)
    IN IF p.exc # NoExc THEN Local(<<"parse">>, p.exc)
       ELSE IF cfg.exc # NoExc THEN Local(<<"parse", "config">>, cfg.exc)
       ELSE IF a # NoExc THEN Local(<<"parse", "config", "authenticate">>, a)
       ELSE IF c.exc # NoExc
       THEN Local(<<"parse", "config", "authenticate", "extract_client_id">>, c.exc)
       ELSE IF v.exc # NoExc
       THEN [Local(<<"parse", "config", "authenticate", "extract_client_id", "validate">>,
                   v.exc) EXCEPT !.client_id = c.client_id]
       ELSE IF z # NoExc
       THEN [Local(<<"parse", "config", "authenticate", "extract_client_id", "validate",
                     "authorize">>, z)
             EXCEPT !.client_id = c.client_id, !.validated = validated]
       ELSE IF k.exc # NoExc
       THEN [Local(<<"parse", "config", "authenticate", "extract_client_id", "validate",
                     "authorize", "correlation_id">>, k.exc)
             EXCEPT !.client_id = c.client_id, !.validated = validated]
       ELSE [Local(<<"parse", "config", "authenticate", "extract_client_id", "validate",
                     "authorize", "correlation_id">>, NoExc)
             EXCEPT !.client_id = c.client_id, !.validated = validated,
                    !.correlation_id = k.correlation_id, !.uuids = k.uuids,
                    !.enqueue_payload = MinimalEnqueuePayload(validated),
                    !.dce_id = validated.document_id]

\* dce_cancel.handler.handler up to the dispatch
EnvelopeLocal(event, env, now, uuids) ==
    LET p == ParseEvent(event)
        cfg == EnvConfigLoad(env)
        a == AuthenticateRequest(event, cfg)
        v == ValidatePayloadEnvelope(p.doc, cfg.cancellation_deadline_minutes, now)
        k == CorrelationId(event, p.doc, uuids)
    IN IF p.exc # NoExc THEN Local(<<"parse">>, p.exc)
       ELSE IF cfg.exc # NoExc THEN Local(<<"parse", "config">>, cfg.exc)
       ELSE IF a # NoExc THEN Local(<<"parse", "config", "authenticate">>, a)
       ELSE IF v.exc # NoExc
       THEN Local(<<"parse", "config", "authenticate", "validate">>, v.exc)
       ELSE IF AllowListRejects(cfg, v.v.client_id)
       THEN [Local(<<"parse", "config", "authenticate", "validate", "authorize">>,
                   AuthorizationError("clientId is not authorized to cancel this DCe"))
             EXCEPT !.client_id = v.v.client_id, !.validated = v.v]
       ELSE IF k.exc # NoExc
       THEN [Local(<<"parse", "config", "authenticate", "validate", "authorize",
                     "correlation_id">>, k.exc)
             EXCEPT !.client_id = v.v.client_id, !.validated = v.v]
       ELSE [Local(<<"parse", "config", "authenticate", "validate", "authorize",
                     "correlation_id">>, NoExc)
             EXCEPT !.client_id = v.v.client_id, !.validated = v.v,
                    !.correlation_id = k.correlation_id, !.uuids = k.uuids,
                    !.enqueue_payload = EnvelopeEnqueuePayload(v.v),
                    !.dce_id = v.v.dce_id]

HandlerLocal(h, event, env, index, now, uuids, queryRaises) ==
    IF h = "lambada" THEN LambadaLocal(event, env, index, now, uuids, queryRaises)
    ELSE EnvelopeLocal(event, env, now, uuids)

\* ---------------------------------------------------------------- invocations
NoEvent ==
    [isDict |-> FALSE, hasBody |-> FALSE,
     body |-> [t |-> "null", text |-> "empty", doc |-> NonDictDoc],
     headersKind |-> "absent", headers |-> <<>>, top |-> EmptyObj]

IdleReq ==
    [pc |-> "idle", h |-> "none", event |-> NoEvent, local |-> Local(<<>>, NoExc),
     calls |-> <<>>, faults |-> <<>>, sent |-> <<>>, wrote |-> <<>>,
     response |-> NoResponse]

\* handler calling _upsert_cancellation_status before _enqueue_cancellation
DispatchOrderUpsertFirst == <<"upsert", "enqueue">>

\* The two downstream calls of handler, in the order it makes them
DispatchOrder == <<"enqueue", "upsert">>

\* The table.query calls of the part before the dispatch: _authorize_client
\* makes one, and only lambada_handler has it
QueryCalls(h, local) ==
    IF h = "lambada" /\ \E i \in 1..Len(local.trace) : local.trace[i] = "authorize"
    THEN <<"query">> ELSE <<>>

\* handler(event, context) is invoked and runs until it returns early or is
\* about to call send_message
Receive(r, h, event, queryRaises) ==
    /\ req[r].pc = "idle"
    \* invocations are numbered in their order of arrival
    /\ \A k \in 1..(r - 1) : req[k].pc # "idle"
    /\ LET local == HandlerLocal(h, event, environ, accessIndex, clock, uuidCount, queryRaises)
       IN /\ req' = [req EXCEPT ![r] =
                       [IdleReq EXCEPT
                          !.pc = IF local.exc = NoExc THEN DispatchOrder[1] ELSE "done",
                          !.h = h, !.event = event, !.local = local,
                          !.calls = QueryCalls(h, local),
                          !.faults = IF queryRaises THEN QueryCalls(h, local) ELSE <<>>,
                          !.response = IF local.exc = NoExc THEN NoResponse
                                       ELSE ExceptionResponse(local.exc)]]
          /\ uuidCount' = uuidCount + local.uuids
    /\ UNCHANGED <<environ, accessIndex, clock, enqueued, store>>

\* The position after a dispatch step that returned normally
StepAfter(step) ==
    LET i == CHOOSE k \in 1..Len(DispatchOrder) : DispatchOrder[k] = step
    IN IF i < Len(DispatchOrder) THEN DispatchOrder[i + 1] ELSE "return"

\* The invocation after `step` returned normally: on to the next call, or, after
\* the last one, the 201 response is built and returned
Continue(rq, step) ==
    IF StepAfter(step) = "return"
    THEN [rq EXCEPT !.pc = "done",
                    !.response = SuccessResponse(rq.local.dce_id, rq.local.correlation_id)]
    ELSE [rq EXCEPT !.pc = StepAfter(step)]

\* The invocation after `call` raised ClientError / BotoCoreError: the except
\* clause builds the response and handler returns
Abort(rq, call) ==
    [rq EXCEPT !.pc = "done", !.faults = Append(@, call),
               !.response = ExceptionResponse(ClientError(call))]

\* a sender that delivers its message twice
EnqueueTwice(r) ==
    /\ req[r].pc = "enqueue"
    /\ IsStr(req[r].local.correlation_id)
    /\ LET m == Message(req[r].local.enqueue_payload, req[r].local.correlation_id)
       IN /\ enqueued' = Append(Append(enqueued, m), m)
          /\ req' = [req EXCEPT ![r] =
                       Continue([@ EXCEPT !.calls = Append(@, "send_message"),
                                          !.sent = Append(@, m)], "enqueue")]
    /\ UNCHANGED <<environ, accessIndex, clock, uuidCount, store>>

\* _enqueue_cancellation: send_message accepts the message
Enqueue(r) ==
    /\ req[r].pc = "enqueue"
    /\ IsStr(req[r].local.correlation_id)
    /\ LET m == Message(req[r].local.enqueue_payload, req[r].local.correlation_id)
       IN /\ enqueued' = Append(enqueued, m)
          /\ req' = [req EXCEPT ![r] =
                       Continue([@ EXCEPT !.calls = Append(@, "send_message"),
                                          !.sent = Append(@, m)], "enqueue")]
    /\ UNCHANGED <<environ, accessIndex, clock, uuidCount, store>>

\* a handler that logs the failed send and carries on with the status write
EnqueueFailSwallowed(r) ==
    /\ req[r].pc = "enqueue"
    /\ req' = [req EXCEPT ![r] =
                 Continue([@ EXCEPT !.calls = Append(@, "send_message"),
                                    !.faults = Append(@, "send_message")], "enqueue")]
    /\ UNCHANGED <<environ, accessIndex, clock, uuidCount, enqueued, store>>

\* _enqueue_cancellation: send_message raises ClientError / BotoCoreError (a
\* transport or service fault, or a StringValue that is no string)
EnqueueFail(r) ==
    /\ req[r].pc = "enqueue"
    /\ req' = [req EXCEPT ![r] =
                 Abort([@ EXCEPT !.calls = Append(@, "send_message")], "send_message")]
    /\ UNCHANGED <<environ, accessIndex, clock, uuidCount, enqueued, store>>

\* _upsert_cancellation_status: update_item is applied
Upsert(r) ==
    /\ req[r].pc = "upsert"
    /\ LET item == UpsertItem(req[r].h, req[r].local.enqueue_payload,
                              req[r].local.correlation_id, clock)
       IN /\ store' = UpdateItem(store, item)
          /\ req' = [req EXCEPT ![r] =
                       Continue([@ EXCEPT !.calls = Append(@, "update_item"),
                                          !.wrote = Append(@, item)], "upsert")]
    /\ UNCHANGED <<environ, accessIndex, clock, uuidCount, enqueued>>

\* a handler that treats the status write as best effort and answers 201
UpsertFailSwallowed(r) ==
    /\ req[r].pc = "upsert"
    /\ req' = [req EXCEPT ![r] =
                 Continue([@ EXCEPT !.calls = Append(@, "update_item"),
                                    !.faults = Append(@, "update_item")], "upsert")]
    /\ UNCHANGED <<environ, accessIndex, clock, uuidCount, enqueued, store>>

\* a handler that takes its message back out of the queue when the write fails
UpsertFailRollback(r) ==
    /\ req[r].pc = "upsert"
    /\ req' = [req EXCEPT ![r] =
                 Abort([@ EXCEPT !.calls = Append(@, "update_item")], "update_item")]
    /\ enqueued' = SelectSeq(enqueued, LAMBDA m : m # req[r].sent[1])
    /\ UNCHANGED <<environ, accessIndex, clock, uuidCount, store>>

\* _upsert_cancellation_status: update_item raises ClientError / BotoCoreError
UpsertFail(r) ==
    /\ req[r].pc = "upsert"
    /\ req' = [req EXCEPT ![r] =
                 Abort([@ EXCEPT !.calls = Append(@, "update_item")], "update_item")]
    /\ UNCHANGED <<environ, accessIndex, clock, uuidCount, enqueued, store>>

\* time passes
Tick ==
    /\ clock < MaxClock
    /\ clock' = clock + 1
    /\ UNCHANGED <<environ, accessIndex, uuidCount, req, enqueued, store>>

\* ---------------------------------------------------------------- inputs
Secret == Str(<<"secret">>)
Partner == Str(<<"partner-123">>)
Another == Str(<<"another-client">>)
DocA == Str(<<"1234567890">>)
DocB == Str(<<"DCE123">>)
Reason == Str(<<"duplicate invoice">>)

H(name, val) == [name |-> name, val |-> val]
Bearer(toks) == Str(<<"Bearer", " ">> \o toks)

\* Authorization header entries
AuthGood == <<H("Authorization", Bearer(<<"secret">>))>>
AuthVariants ==
    { <<>>,
      <<H("authorization", Bearer(<<"secret">>))>>,
      <<H("AUTHORIZATION", Bearer(<<"secret">>))>>,
      <<H("Authorization", Bearer(<<"wrong">>))>>,
      <<H("Authorization", Bearer(<<"secret", "X">>))>>,
      <<H("Authorization", Bearer(<<" ", "secret", " ">>))>>,
      <<H("Authorization", Str(<<"Basic", " ", "secret">>))>>,
      <<H("Authorization", Str(<<"bearer", " ", "secret">>))>>,
      <<H("Authorization", Str(<<"secret">>))>>,
      <<H("Authorization", Str(<<>>)), H("authorization", Bearer(<<"secret">>))>>,
      <<H("Authorization", Num(7, "7"))>> }

\* client id header entries
ClientGood == <<H("Client-Id", Partner)>>
ClientVariants ==
    { <<>>,
      <<H("x-client-id", Partner)>>,
      <<H("Client_Id", Partner)>>,
      <<H("ClientId", Another)>>,
      <<H("client-id", Str(<<>>))>>,
      <<H("clientid", Num(7, "7"))>>,
      <<H("X-Client-Id", Null)>>,
      <<H("client-id", Str(<<>>)), H("x-client-id", Partner)>>,
      <<H("x-client-id", Partner), H("client_id", Num(7, "7"))>>,
      <<H("Client-Id", Partner), H("client-id", Str(<<>>))>>,
      <<H("client-id", Str(<<>>)), H("Client-Id", Partner)>> }

\* correlation id header entries
CorrVariants ==
    { <<H("X-Correlation-Id", Str(<<"corr-h">>))>>,
      <<H("x-correlation-id", Str(<<"corr-h">>))>>,
      <<H("X-Correlation-Id", Str(<<>>))>> }

HeaderDicts ==
    {AuthGood \o ClientGood}
    \cup {a \o ClientGood : a \in AuthVariants}
    \cup {AuthGood \o c : c \in ClientVariants}
    \cup {AuthGood \o ClientGood \o k : k \in CorrVariants}
    \cup {<<>>}

\* payloads of the minimal shape
Minimal(id, cancelReason) == [EmptyObj EXCEPT !.id = id, !.cancelReason = cancelReason]
MinimalGood == Minimal(DocA, Reason)
MinimalPayloads ==
    { EmptyObj, MinimalGood, Minimal(DocB, Reason), Minimal(Num(42, "42"), Reason),
      [MinimalGood EXCEPT !.correlationId = Str(<<"corr-b">>)],
      [MinimalGood EXCEPT !.eventCancelDate = IsoFormat(0 - 2),
                          !.timestamp = IsoFormat(0 - 2)] }
    \cup {Minimal(id, Reason) : id \in {Null, Str(<<>>), Num(0, "0"), EmptyList}}
    \cup {Minimal(DocA, cr) : cr \in {Null, Str(<<>>), Num(0, "0"), Num(7, "7"), False_,
                                       True_, EmptyList, List1, EmptyDict, Dict1}}
    \cup {Minimal(Null, cr) : cr \in {Num(7, "7"), EmptyList}}

\* payloads of the envelope shape
EventGood ==
    [t |-> "dict", code |-> Str(<<"110111">>), schemaVersion |-> Str(<<"1.00">>),
     sequenceNumber |-> Num(1, "1"), reason |-> Reason,
     protocol |-> Str(<<"123456789012345">>)]
IssuerGood == [t |-> "dict", cnpj |-> Str(<<"12345678000199">>)]
Envelope(dceId, clientId, instant) ==
    [EmptyObj EXCEPT !.dceId = dceId, !.event = EventGood, !.timestamp = IsoFormat(instant),
                     !.issuer = IssuerGood, !.metadata = Dict1, !.clientId = clientId]
EnvelopeGood == Envelope(DocB, Partner, 0)
EnvelopePayloads ==
    { EnvelopeGood, Envelope(DocA, Partner, 0), Envelope(DocB, Another, 0),
      Envelope(Num(42, "42"), Partner, 0),
      Envelope(DocB, Partner, 0 - 1), Envelope(DocB, Partner, 0 - 2),
      Envelope(DocB, Partner, MaxClock),
      [EnvelopeGood EXCEPT !.correlationId = Str(<<"corr-b">>)],
      [EnvelopeGood EXCEPT !.correlationId = Num(7, "7")],
      [EnvelopeGood EXCEPT !.metadata = Null],
      [EnvelopeGood EXCEPT !.metadata = List1],
      [EnvelopeGood EXCEPT !.dceId = Null],
      [EnvelopeGood EXCEPT !.event = NoEventObj],
      [EnvelopeGood EXCEPT !.timestamp = Null],
      [EnvelopeGood EXCEPT !.timestamp = [t |-> "str", s |-> <<"naive">>, n |-> 0]],
      [EnvelopeGood EXCEPT !.timestamp = [t |-> "str", s |-> <<"isoZ">>, n |-> 0]],
      [EnvelopeGood EXCEPT !.timestamp = Num(7, "7")],
      [EnvelopeGood EXCEPT !.clientId = Null],
      [EnvelopeGood EXCEPT !.clientId = Num(7, "7")],
      [EnvelopeGood EXCEPT !.issuer = NoIssuer],
      [EnvelopeGood EXCEPT !.issuer = [t |-> "dict", cnpj |-> Null]] }
    \cup {[EnvelopeGood EXCEPT !.event = [EventGood EXCEPT !.code = c]] :
            c \in {Null, Num(110111, "110111"), Str(<<"110110">>)}}
    \cup {[EnvelopeGood EXCEPT !.event = [EventGood EXCEPT !.schemaVersion = sv]] :
            sv \in {Null, Str(<<"1.01">>), Str(<<"2.00">>), List1}}
    \cup {[EnvelopeGood EXCEPT !.event = [EventGood EXCEPT !.sequenceNumber = n]] :
            n \in {Null, Num(0, "0"), True_, Str(<<"1">>)}}
    \cup {[EnvelopeGood EXCEPT !.event = [EventGood EXCEPT !.reason = Str(<<>>)]],
          [EnvelopeGood EXCEPT !.event = [EventGood EXCEPT !.protocol = Null]]}

Payloads == MinimalPayloads \cup EnvelopePayloads

\* an event of the gateway: a headers dict and a body that is JSON text
Event(headers, text, doc) ==
    [isDict |-> TRUE, hasBody |-> TRUE, body |-> [t |-> "str", text |-> text, doc |-> doc],
     headersKind |-> "dict", headers |-> headers, top |-> EmptyObj]

JsonEvent(headers, obj) == Event(headers, "json", DictDoc(obj))

\* the bodies that are not the JSON text of an object, and the other event shapes
OddEvents(headers) ==
    { Event(headers, "empty", NonDictDoc),
      Event(headers, "malformed", NonDictDoc),
      Event(headers, "json", NonDictDoc),
      [JsonEvent(headers, MinimalGood) EXCEPT !.body.t = "dict"],
      [JsonEvent(headers, EnvelopeGood) EXCEPT !.body.t = "dict"],
      [JsonEvent(headers, EmptyObj) EXCEPT !.body.t = "null"],
      [JsonEvent(headers, EmptyObj) EXCEPT !.hasBody = FALSE, !.top = MinimalGood],
      [JsonEvent(headers, EmptyObj) EXCEPT !.hasBody = FALSE, !.top = EnvelopeGood] }

AllEvents ==
    {JsonEvent(AuthGood \o ClientGood, obj) : obj \in Payloads}
    \cup {JsonEvent(hd, obj) : hd \in HeaderDicts, obj \in {MinimalGood, EnvelopeGood, EmptyObj}}
    \cup UNION {OddEvents(hd) : hd \in {AuthGood \o ClientGood, ClientGood, AuthGood, <<>>}}
    \cup {[JsonEvent(<<>>, obj) EXCEPT !.headersKind = k] :
            k \in {"absent", "null"}, obj \in {MinimalGood, EnvelopeGood}}
    \cup {NoEvent}

\* the events of the concurrent specification
CoreEvents ==
    { JsonEvent(AuthGood \o ClientGood, EnvelopeGood),
      JsonEvent(AuthGood \o <<H("X-Correlation-Id", Str(<<"corr-h">>))>>, EnvelopeGood),
      JsonEvent(AuthGood, Envelope(DocA, Partner, 0)),
      JsonEvent(AuthGood, Envelope(DocB, Another, 0)),
      JsonEvent(AuthGood \o ClientGood, MinimalGood),
      JsonEvent(ClientGood, EnvelopeGood) }

\* os.environ
Environ(token, allowed, deadline) ==
    [SQS_QUEUE_URL |-> Str(<<"https://sqs.queue">>), DCE_TABLE_NAME |-> Str(<<"dce-table">>),
     API_AUTH_TOKEN |-> token, ALLOWED_CLIENT_IDS |-> allowed,
     CANCELLATION_DEADLINE_MINUTES |-> deadline]

Deadline == Num(DeadlineMinutes, "minutes")

CoreEnviron == Environ(Secret, <<Partner.s>>, Deadline)

AllEnvirons ==
    { CoreEnviron,
      Environ(Secret, <<>>, Deadline),
      Environ(Secret, <<<<" ">>, <<>>, <<" ", "another-client", " ">>>>, Null),
      Environ(Null, <<Partner.s, Another.s>>, Deadline),
      Environ(Str(<<>>), <<<<" ">>, <<>>>>, Deadline) }

\* the access table: items [accessKey, clientId], in key order
Access(accessKey, clientId) == [accessKey |-> accessKey.s, clientId |-> clientId.s]
CoreIndex == <<Access(DocA, Partner)>>
AllIndexes ==
    { <<>>, <<Access(DocA, Another), Access(DocA, Partner), Access(DocB, Another)>> }

Handlers == {"lambada", "envelope"}

\* ---------------------------------------------------------------- specifications
InitWith(envs, indexes) ==
    /\ environ \in envs
    /\ accessIndex \in indexes
    /\ clock = 0
    /\ uuidCount = 0
    /\ req = [r \in Reqs |-> IdleReq]
    /\ enqueued = <<>>
    /\ store = {}

Dispatch(r) ==
    \/ Enqueue(r)
    \/ EnqueueFail(r)
    \/ Upsert(r)
    \/ UpsertFail(r)

\* any number of invocations (up to NReq) run concurrently
Init == InitWith({CoreEnviron}, {CoreIndex})

Next ==
    \/ \E r \in Reqs, h \in Handlers, e \in CoreEvents, q \in BOOLEAN : Receive(r, h, e, q)
    \/ \E r \in Reqs : Dispatch(r)
    \/ Tick

Spec == Init /\ [][Next]_vars

\* one invocation, over every event, environment and access table of the model
InitOne == InitWith(AllEnvirons, AllIndexes)

NextOne ==
    \/ \E h \in Handlers, e \in AllEvents, q \in BOOLEAN : Receive(1, h, e, q)
    \/ Dispatch(1)
    \/ Tick

SpecOne == InitOne /\ [][NextOne]_vars

\* ---------------------------------------------------------------- properties
StepsOf(r) == {req[r].local.trace[i] : i \in 1..Len(req[r].local.trace)}
Count(seq, x) == Cardinality({i \in 1..Len(seq) : seq[i] = x})
Returned(r) == req[r].pc = "done"
StatusCode(r) == req[r].response.statusCode
NoDispatch(r) ==
    /\ Count(req[r].calls, "send_message") = 0
    /\ Count(req[r].calls, "update_item") = 0
    /\ req[r].sent = <<>>
    /\ req[r].wrote = <<>>

\* the payload dict the handler works on
PayloadOf(r) == ParseEvent(req[r].event).doc

\* the document id a queue message and a status item are about
MessageDocId(m) ==
    IF "dceId" \in m.MessageBody.keys THEN m.MessageBody.dceId ELSE m.MessageBody.id
ItemKey(docId) == <<"DCE#">> \o docId.s

C2_RecordImpliesEnqueued ==
    \A item \in store :
        \E i \in 1..Len(enqueued) :
            /\ ItemKey(MessageDocId(enqueued[i])) = item.pk
            /\ enqueued[i].MessageBody.correlationId = item.correlationId

C2_Witness ==
    /\ store # {}
    /\ \E i \in 1..Len(enqueued) :
          \A item \in store :
              ~(/\ ItemKey(MessageDocId(enqueued[i])) = item.pk
                /\ enqueued[i].MessageBody.correlationId = item.correlationId)

\* C3: an invocation that returned 201 made both downstream calls, each once and
\* without a fault, send_message before update_item: one message was accepted
\* and one upsert applied, both for the document id returned as dceId.
C3_SuccessMeansBothCallsDone ==
    \A r \in Reqs :
        StatusCode(r) = 201 =>
            /\ Returned(r)
            /\ req[r].faults = <<>>
            /\ Count(req[r].calls, "send_message") = 1
            /\ Count(req[r].calls, "update_item") = 1
            /\ Len(req[r].calls) >= 2
            /\ SubSeq(req[r].calls, Len(req[r].calls) - 1, Len(req[r].calls))
                  = <<"send_message", "update_item">>
            /\ Len(req[r].sent) = 1
            /\ Len(req[r].wrote) = 1
            /\ \E i \in 1..Len(enqueued) : enqueued[i] = req[r].sent[1]
            /\ MessageDocId(req[r].sent[1]) = req[r].response.dceId
            /\ req[r].wrote[1].pk = ItemKey(req[r].response.dceId)

C3_Witness ==
    \E r \in Reqs :
        /\ StatusCode(r) = 201
        /\ Len(req[r].sent) = 1
        /\ Len(req[r].wrote) = 1

\* C4: in lambada_handler, a request that passed authentication and client-id
\* extraction and whose payload has `id` or `cancelReason` missing or empty
\* fails validation: the response is 400 and no query, send_message or
\* update_item is made.
C4_MissingFieldIs400NoIO ==
    \A r \in Reqs :
        ( /\ req[r].h = "lambada"
          /\ "validate" \in StepsOf(r)
          /\ PayloadOf(r).isDict
          /\ ~Truthy(PayloadOf(r).obj.id) \/ ~Truthy(PayloadOf(r).obj.cancelReason) )
        => /\ Returned(r)
           /\ req[r].local.exc.kind = "ValidationError"
           /\ StatusCode(r) = 400
           /\ req[r].calls = <<>>
           /\ NoDispatch(r)

C4_Witness ==
    \E r \in Reqs :
        /\ req[r].h = "lambada"
        /\ "validate" \in StepsOf(r)
        /\ Truthy(PayloadOf(r).obj.id)
        /\ ~Truthy(PayloadOf(r).obj.cancelReason)
        /\ StatusCode(r) = 400
        /\ req[r].local.exc.msg = "cancelReason is required"

\* C5: validate_payload of the minimal shape, given a payload whose cancelReason
\* is not a string (a number, a boolean, an object, a list or null, truthy or
\* falsy), raises ValidationError and returns no validated record.
C5_NonStringReasonFails ==
    \A r \in Reqs :
        ( /\ req[r].h = "lambada"
          /\ "validate" \in StepsOf(r)
          /\ PayloadOf(r).isDict
          /\ PayloadOf(r).obj.cancelReason.t # "str" )
        => /\ req[r].local.exc.kind = "ValidationError"
           /\ req[r].local.validated = NoValidated

C5_Witness ==
    \E r \in Reqs :
        /\ req[r].h = "lambada"
        /\ "validate" \in StepsOf(r)
        /\ PayloadOf(r).obj.cancelReason.t \in {"num", "bool", "list", "dict"}
        /\ Truthy(PayloadOf(r).obj.cancelReason)
        /\ req[r].local.exc = ValidationError("cancelReason must be a string")

\* the event has an Authorization header (whatever the case of its name) whose
\* text is "Bearer " and the token, spaces around the token aside
CarriesBearer(event, token) ==
    /\ event.isDict
    /\ event.headersKind = "dict"
    /\ \E i \in 1..Len(event.headers) :
          /\ Lower(event.headers[i].name) = "authorization"
          /\ IsStr(event.headers[i].val)
          /\ StartsWith(event.headers[i].val.s, <<"Bearer", " ">>)
          /\ Strip(SubSeq(event.headers[i].val.s, 3, Len(event.headers[i].val.s))) = token.s

\* every header value is a string, as an HTTP gateway delivers them
StringHeaders(event) == \A i \in 1..Len(event.headers) : IsStr(event.headers[i].val)

\* C6: with an auth token configured, every request that carries no matching
\* Authorization: Bearer header is answered 401, and validation, authorization,
\* send and upsert never run for it, whatever its body (empty, no object, or
\* not parseable JSON).
C6_NoBearerIs401 ==
    \A r \in Reqs :
        ( /\ Returned(r)
          /\ Truthy(environ.API_AUTH_TOKEN)
          /\ StringHeaders(req[r].event)
          /\ ~CarriesBearer(req[r].event, environ.API_AUTH_TOKEN) )
        => /\ StatusCode(r) = 401
           /\ StepsOf(r) \cap {"validate", "authorize"} = {}
           /\ req[r].calls = <<>>
           /\ NoDispatch(r)

\* no accepted alias of the client id header carries a non-empty string
NoClientIdHeader(event) ==
    \/ ~(event.isDict /\ event.headersKind = "dict")
    \/ \A i \in 1..Len(event.headers) :
          Lower(event.headers[i].name) \in {"client-id", "client_id", "clientid", "x-client-id"}
          => ~(IsStr(event.headers[i].val) /\ Len(event.headers[i].val.s) > 0)

\* C7: in lambada_handler, a request that passed authentication and whose
\* headers hold no accepted client-id alias, or hold them only with an empty or
\* non-string value, is answered 401, and validation, authorization and
\* dispatch do not run for it.
C7_NoClientIdIs401 ==
    \A r \in Reqs :
        ( /\ req[r].h = "lambada"
          /\ "extract_client_id" \in StepsOf(r)
          /\ NoClientIdHeader(req[r].event) )
        => /\ Returned(r)
           /\ req[r].local.exc.kind = "AuthorizationError"
           /\ StatusCode(r) = 401
           /\ StepsOf(r) \cap {"validate", "authorize", "correlation_id"} = {}
           /\ req[r].calls = <<>>
           /\ NoDispatch(r)

C7_Witness ==
    \E r \in Reqs :
        /\ req[r].h = "lambada"
        /\ "extract_client_id" \in StepsOf(r)
        /\ NoClientIdHeader(req[r].event)
        /\ \E i \in 1..Len(req[r].event.headers) :
              /\ Lower(req[r].event.headers[i].name) = "clientid"
              /\ req[r].event.headers[i].val.t = "num"
        /\ StatusCode(r) = 401

\* C8: in the allow-list handler, an authenticated request with a valid payload
\* whose client id is not in the configured set of allowed client ids is
\* answered 403, and neither send_message nor update_item is made.
C8_NotAllowedIs403NoDispatch ==
    \A r \in Reqs :
        ( /\ req[r].h = "envelope"
          /\ "authorize" \in StepsOf(r)
          /\ EnvConfigLoad(environ).allowed_client_ids_set
          /\ PayloadOf(r).obj.clientId.s \notin EnvConfigLoad(environ).allowed_client_ids )
        => /\ Returned(r)
           /\ StatusCode(r) = 403
           /\ req[r].calls = <<>>
           /\ NoDispatch(r)

C8_Witness ==
    \E r \in Reqs :
        /\ req[r].h = "envelope"
        /\ "authorize" \in StepsOf(r)
        /\ PayloadOf(r).obj.clientId = Another
        /\ Partner.s \in EnvConfigLoad(environ).allowed_client_ids
        /\ StatusCode(r) = 403

\* C9: in lambada_handler, for a request with valid credentials, client id and
\* payload (and a lookup that does not fault), _authorize_client lets the
\* request through exactly when the access table holds a record with
\* accessKey = document id and clientId = client id; without such a record
\* the response is 403 and nothing is enqueued or written.
C9_LookupDecides ==
    \A r \in Reqs :
        ( /\ req[r].h = "lambada"
          /\ Returned(r)
          /\ "validate" \in StepsOf(r)
          /\ PayloadOf(r).isDict
          /\ Truthy(PayloadOf(r).obj.id)
          /\ Truthy(PayloadOf(r).obj.cancelReason)
          /\ IsStr(PayloadOf(r).obj.cancelReason)
          /\ Count(req[r].faults, "query") = 0 )
        => LET held == \E i \in 1..Len(accessIndex) :
                          /\ accessIndex[i].accessKey = PyStr(PayloadOf(r).obj.id).s
                          /\ accessIndex[i].clientId = req[r].local.client_id.s
           IN /\ ~held => (StatusCode(r) = 403 /\ NoDispatch(r))
              /\ held => ("correlation_id" \in StepsOf(r) /\ StatusCode(r) # 403)

\* C10: a request answered 201 used one correlation id throughout: the one in
\* the response body is the correlationId merged into the message body, the
\* CorrelationId string attribute of the message, and the correlationId of the
\* status record it upserted.
C10_OneCorrelationId ==
    \A r \in Reqs :
        StatusCode(r) = 201 =>
            /\ Len(req[r].sent) = 1
            /\ Len(req[r].wrote) = 1
            /\ IsStr(req[r].response.correlationId)
            /\ "correlationId" \in req[r].sent[1].MessageBody.keys
            /\ req[r].sent[1].MessageBody.correlationId = req[r].response.correlationId
            /\ req[r].sent[1].CorrelationId.StringValue = req[r].response.correlationId
            /\ req[r].sent[1].CorrelationId.DataType = "String"
            /\ req[r].wrote[1].correlationId = req[r].response.correlationId

C10_Witness ==
    \E r \in Reqs :
        /\ StatusCode(r) = 201
        /\ req[r].response.correlationId = Str(<<"corr-h">>)
        /\ req[r].wrote[1].correlationId = Str(<<"corr-h">>)

\* the fields of the status record that come from the request of invocation r
RequestFields(r) ==
    IF req[r].h = "lambada"
    THEN [docId |-> PyStr(PayloadOf(r).obj.id),
          correlationId |-> req[r].local.correlation_id,
          reason |-> PayloadOf(r).obj.cancelReason,
          clientId |-> req[r].local.client_id,
          eventTimestamp |-> req[r].local.validated.event_cancel_date]
    ELSE [docId |-> PyStr(PayloadOf(r).obj.dceId),
          correlationId |-> req[r].local.correlation_id,
          reason |-> PyStr(PayloadOf(r).obj.event.reason),
          clientId |-> PayloadOf(r).obj.clientId,
          eventTimestamp |-> PayloadOf(r).obj.timestamp]

RecordsOf(table, pk) == {i \in table : i.pk = pk}

\* the step in which the update_item of invocation r returned normally
UpsertReturned(r) ==
    /\ req[r].pc = "upsert"
    /\ req'[r].pc = "done"
    /\ req'[r].response.statusCode = 201

\* C11: requests for the same document are not coordinated. Every invocation
\* answered 201 has its own message in the queue (two of them for one document
\* give two messages), the store holds at most one record per document, and
\* each update_item that returns leaves that record with the correlation id,
\* reason, client id and event timestamp of its own request, whether or not a
\* record was there before: the record is the one of the upsert executed last.
C11_LastUpsertWins ==
    /\ [](/\ \A item \in store : Cardinality(RecordsOf(store, item.pk)) = 1
          /\ \E f \in [{r \in Reqs : StatusCode(r) = 201} -> 1..Len(enqueued)] :
                /\ \A r \in DOMAIN f : enqueued[f[r]] = req[r].sent[1]
                /\ \A r1, r2 \in DOMAIN f : r1 # r2 => f[r1] # f[r2])
    /\ [][ /\ store' # store => \E r \in Reqs : UpsertReturned(r)
           /\ \A r \in Reqs :
                UpsertReturned(r) =>
                    LET pk == ItemKey(RequestFields(r).docId)
                    IN /\ Cardinality(RecordsOf(store', pk)) = 1
                       /\ \A i \in RecordsOf(store', pk) :
                             /\ i.correlationId = RequestFields(r).correlationId
                             /\ i.cancellationReason = RequestFields(r).reason
                             /\ i.clientId = RequestFields(r).clientId
                             /\ i.eventTimestamp = RequestFields(r).eventTimestamp
                       /\ \A i \in store' : i.pk # pk => i \in store
                       /\ \A i \in store : i.pk # pk => i \in store' ]_vars

\* two invocations answered 201 for one document with different correlation
\* ids, and the record left is the one of the invocation that arrived first
C11_Witness ==
    \E r1, r2 \in Reqs :
        /\ r1 < r2
        /\ StatusCode(r1) = 201
        /\ StatusCode(r2) = 201
        /\ req[r1].wrote[1].pk = req[r2].wrote[1].pk
        /\ req[r1].wrote[1].correlationId # req[r2].wrote[1].correlationId
        /\ Len(enqueued) >= 2
        /\ store = {req[r1].wrote[1]}

\* the access table holds a record with this access key and client id
AccessHeld(docId, clientId) ==
    \E i \in 1..Len(accessIndex) :
        /\ accessIndex[i].accessKey = docId.s
        /\ accessIndex[i].clientId = clientId.s

\* a request of the minimal shape with everything in order: matching Bearer
\* token, a client id header, non-empty id, non-empty string cancelReason, and
\* an access record for that id and client
MinimalHappy(r) ==
    /\ req[r].h = "lambada"
    /\ Truthy(environ.API_AUTH_TOKEN)
    /\ StringHeaders(req[r].event)
    /\ CarriesBearer(req[r].event, environ.API_AUTH_TOKEN)
    /\ ~NoClientIdHeader(req[r].event)
    /\ "validate" \in StepsOf(r)
    /\ PayloadOf(r).isDict
    /\ Truthy(PayloadOf(r).obj.id)
    /\ Truthy(PayloadOf(r).obj.cancelReason)
    /\ IsStr(PayloadOf(r).obj.cancelReason)
    /\ AccessHeld(PyStr(PayloadOf(r).obj.id), req[r].local.client_id)

\* C12: in lambada_handler, a request with everything in order and no downstream
\* fault is answered 201 with dceId = payload id; its message carries that id
\* and eventCode "110111"; its status record has status CANCELLATION_REQUESTED,
\* operationStatus RECEIVED, eventCode "110111", the payload's cancelReason and
\* the client id of the header.
C12_HappyPathIs201 ==
    \A r \in Reqs :
        ( MinimalHappy(r) /\ Returned(r) /\ req[r].faults = <<>> )
        => /\ StatusCode(r) = 201
           /\ req[r].response.dceId = PyStr(PayloadOf(r).obj.id)
           /\ Len(req[r].sent) = 1
           /\ req[r].sent[1].MessageBody.id = PyStr(PayloadOf(r).obj.id)
           /\ req[r].sent[1].MessageBody.eventCode = Str(<<"110111">>)
           /\ Len(req[r].wrote) = 1
           /\ req[r].wrote[1].status = "CANCELLATION_REQUESTED"
           /\ req[r].wrote[1].operationStatus = "RECEIVED"
           /\ req[r].wrote[1].eventCode = Str(<<"110111">>)
           /\ req[r].wrote[1].cancellationReason = PayloadOf(r).obj.cancelReason
           /\ req[r].wrote[1].clientId = req[r].local.client_id

\* C13: in both handlers, an invocation whose send_message was accepted and
\* whose update_item then raised is answered 500, as an unexpected failure, and
\* not 502.
C13_UpsertFailureIs500 ==
    \A r \in Reqs :
        ( /\ Len(req[r].sent) = 1
          /\ Count(req[r].faults, "update_item") > 0 )
        => /\ Returned(r)
           /\ StatusCode(r) = 500

\* the body of the event is a string that is not parseable JSON
UnparseableBody(event) ==
    event.isDict /\ event.hasBody /\ event.body.t = "str" /\ event.body.text = "malformed"

\* C14: parsing never fails. No invocation ends in the parse step; for a body
\* that is not parseable JSON the parse step yields the empty object, the
\* later steps run, and a request that gets as far as validation is answered
\* 400 by it.
C14_ParsingNeverFails ==
    \A r \in Reqs :
        Returned(r) =>
            /\ ParseEvent(req[r].event).exc = NoExc
            /\ req[r].local.trace # <<"parse">>
            /\ UnparseableBody(req[r].event) =>
                  /\ PayloadOf(r) = DictDoc(EmptyObj)
                  /\ StatusCode(r) \in {400, 401}
                  /\ "validate" \in StepsOf(r) => StatusCode(r) = 400

\* the answer of the deadline check
WindowExpiredError ==
    ValidationError("Cancellation window expired for the provided timestamp")

\* the payload passes every check of the envelope validator but, possibly, the
\* deadline check (validated with a window that no timestamp of the model exceeds)
OtherwiseValid(doc, now) ==
    ValidatePayloadEnvelope(doc, now + MaxClock + DeadlineMinutes + 5, now).exc = NoExc

\* C15: in the envelope handler, when validation runs at clock value `now` on an
\* otherwise valid payload, a timestamp strictly older than now minus the
\* configured deadline minutes ends the invocation with 400 "Cancellation
\* window expired" and the queue and the store are left alone, for good; a
\* timestamp at or after that deadline passes validation.
C15_DeadlineDecides ==
    /\ [](\A r \in Reqs :
            req[r].local.exc = WindowExpiredError =>
                /\ Returned(r)
                /\ StatusCode(r) = 400
                /\ req[r].calls = <<>>
                /\ NoDispatch(r))
    /\ [][\A r \in Reqs :
            LET rq == req'[r]
                doc == ParseEvent(rq.event).doc
                steps == {rq.local.trace[i] : i \in 1..Len(rq.local.trace)}
                ts == doc.obj.timestamp.n
                minutes == EnvConfigLoad(environ).cancellation_deadline_minutes
            IN ( /\ req[r].pc = "idle"
                 /\ rq.h = "envelope"
                 /\ "validate" \in steps
                 /\ OtherwiseValid(doc, clock) )
               => /\ ts < clock - minutes =>
                       /\ rq.pc = "done"
                       /\ rq.local.exc = WindowExpiredError
                       /\ rq.response.statusCode = 400
                       /\ enqueued' = enqueued
                       /\ store' = store
                  /\ ts >= clock - minutes =>
                       /\ rq.local.exc.kind # "ValidationError"
                       /\ "authorize" \in steps
                       /\ rq.local.validated.timestamp = doc.obj.timestamp ]_vars

\* a timestamp that was inside the window at clock 0 is rejected later on
C15_Witness ==
    \E r \in Reqs :
        /\ req[r].h = "envelope"
        /\ req[r].local.exc = WindowExpiredError
        /\ PayloadOf(r).obj.timestamp.n = 0
        /\ StatusCode(r) = 400
        /\ NoDispatch(r)

\* C16: in lambada_handler, a request with everything in order and no
\* downstream fault has its message and its status record stamped with the
\* server clock read at validation: eventCancelDate of the message and
\* eventTimestamp of the record are the same isoformat text of an instant of
\* the server clock not later than now, whatever eventCancelDate or timestamp
\* the body carried.
C16_ServerClockTimestamp ==
    \A r \in Reqs :
        ( MinimalHappy(r) /\ Returned(r) /\ req[r].faults = <<>> )
        => /\ Len(req[r].sent) = 1
           /\ Len(req[r].wrote) = 1
           /\ \E n \in 0..clock :
                 /\ req[r].sent[1].MessageBody.eventCancelDate = IsoFormat(n)
                 /\ req[r].wrote[1].eventTimestamp = IsoFormat(n)

\* the step of handler in which the invocation failed, "none" if it did not
LastStep(r) ==
    IF req[r].local.exc = NoExc THEN "none"
    ELSE req[r].local.trace[Len(req[r].local.trace)]

\* C17: an invocation is either waiting for a downstream call, which can always
\* return or raise, or has returned a response envelope; no exception leaves
\* handler. The status code of a returned response follows the kind of
\* failure: 400 for a validation failure, 401 for a failed authentication or
\* client-id extraction, 403 for a denied authorization, 502 for a downstream
\* call that raised, 500 for any other exception, and 201 when nothing failed.
C17_ResponseByFailureKind ==
    \A r \in Reqs :
        /\ req[r].pc \in {"idle", "enqueue", "upsert", "done"}
        /\ req[r].pc \in {"enqueue", "upsert"} => ENABLED Dispatch(r)
        /\ req[r].pc # "done" => req[r].response = NoResponse
        /\ Returned(r) =>
              /\ StatusCode(r) \in {201, 400, 401, 403, 502, 500}
              /\ StatusCode(r) = 400 <=> req[r].local.exc.kind = "ValidationError"
              /\ StatusCode(r) = 401 <=>
                    /\ req[r].local.exc.kind = "AuthorizationError"
                    /\ LastStep(r) \in {"authenticate", "extract_client_id"}
              /\ StatusCode(r) = 403 <=>
                    /\ req[r].local.exc.kind = "AuthorizationError"
                    /\ LastStep(r) = "authorize"
              /\ StatusCode(r) = 502 <=>
                    \/ req[r].faults # <<>>
                    \/ req[r].local.exc.kind = "ClientError"
              /\ StatusCode(r) = 500 <=>
                    req[r].local.exc.kind \notin
                        {"none", "ValidationError", "AuthorizationError", "ClientError"}
              /\ StatusCode(r) = 201 <=>
                    (req[r].local.exc = NoExc /\ req[r].faults = <<>>)
              /\ StatusCode(r) = 201 <=> req[r].response.error = ""

\* a request turned away for its client id: an AuthorizationError that carries 401
C17_Witness ==
    \E r \in Reqs :
        /\ Returned(r)
        /\ req[r].local.exc.kind = "AuthorizationError"
        /\ LastStep(r) = "extract_client_id"
        /\ StatusCode(r) = 401

\* the steps of lambada_handler.handler before the dispatch, in their order
LocalOrder ==
    <<"parse", "config", "authenticate", "extract_client_id", "validate", "authorize",
      "correlation_id">>

IsPrefix(a, b) == Len(a) <= Len(b) /\ SubSeq(b, 1, Len(a)) = a

\* the calls of one invocation: the names of calls, in order, without repeats
CallsInOrder(calls) ==
    \E picked \in SUBSET {"query", "send_message", "update_item"} :
        calls = SelectSeq(<<"query", "send_message", "update_item">>,
                          LAMBDA c : c \in picked)

\* C18: in lambada_handler every request runs PARSE, AUTHENTICATE,
\* EXTRACT_CLIENT, VALIDATE, AUTHORIZE, DISPATCH (send, then upsert), RESPOND in
\* that order. A step has run only if each step before it succeeded on this
\* request; the first step that fails ends the invocation with its response;
\* query, send_message and update_item are each called at most once, in that
\* order; a request that failed before the dispatch has no message and no record.
C18_FixedStepOrder ==
    \A r \in Reqs :
        req[r].h = "lambada" =>
            LET event == req[r].event
                cfg == LambadaEnvConfigLoad(environ)
                failed == req[r].local.exc # NoExc
            IN /\ IsPrefix(req[r].local.trace, LocalOrder)
               /\ "parse" \in StepsOf(r)
               /\ "authenticate" \in StepsOf(r) => ParseEvent(event).exc = NoExc
               /\ "extract_client_id" \in StepsOf(r) =>
                     AuthenticateRequest(event, cfg) = NoExc
               /\ "validate" \in StepsOf(r) => ExtractClientId(event).exc = NoExc
               /\ "authorize" \in StepsOf(r) =>
                     /\ ~(~Truthy(PayloadOf(r).obj.id) \/ ~IsStr(PayloadOf(r).obj.cancelReason))
                     /\ req[r].local.validated # NoValidated
               /\ ParseEvent(event).exc # NoExc => LastStep(r) = "parse"
               /\ ( /\ "authenticate" \in StepsOf(r)
                    /\ AuthenticateRequest(event, cfg) # NoExc ) => LastStep(r) = "authenticate"
               /\ ( /\ "extract_client_id" \in StepsOf(r)
                    /\ ExtractClientId(event).exc # NoExc ) => LastStep(r) = "extract_client_id"
               /\ failed =>
                     /\ Returned(r)
                     /\ req[r].response = ExceptionResponse(req[r].local.exc)
                     /\ NoDispatch(r)
                     /\ Len(req[r].calls) <= 1
               /\ CallsInOrder(req[r].calls)
               /\ Count(req[r].calls, "query") = 1 <=> "authorize" \in StepsOf(r)
               /\ req[r].calls # <<>> => "authorize" \in StepsOf(r)
               /\ StatusCode(r) \in {400, 401, 403} =>
                     /\ NoDispatch(r)
                     /\ \A i \in 1..Len(enqueued) :
                           enqueued[i].MessageBody.id # PyStr(PayloadOf(r).obj.id)
                     /\ \A item \in store :
                           item.pk # ItemKey(PyStr(PayloadOf(r).obj.id))

\* a request that passed authentication and client-id extraction and was
\* stopped by validation, before any call
C18_Witness ==
    \E r \in Reqs :
        /\ req[r].h = "lambada"
        /\ req[r].local.trace =
              <<"parse", "config", "authenticate", "extract_client_id", "validate">>
        /\ req[r].local.exc.kind = "ValidationError"
        /\ StatusCode(r) = 400
        /\ req[r].calls = <<>>

\* the Authorization header of the event is exactly "Bearer " and the token
ExactBearer(event, token) ==
    /\ HeadersIsDict(event)
    /\ Or(DictGet(event.headers, "Authorization"),
          DictGet(event.headers, "authorization")) = Bearer(token.s)

\* C19: _authenticate_request lets every request through when no token is
\* configured (absent or empty); with a token configured it lets a request
\* through exactly when its Authorization header is "Bearer " followed by the
\* token, and answers every other request 401.
C19_ExactBearerOnly ==
    \A r \in Reqs :
        "authenticate" \in StepsOf(r) =>
            LET token == EnvConfigLoad(environ).api_auth_token
                passed == LastStep(r) # "authenticate"
            IN /\ ~Truthy(token) => passed
               /\ Truthy(token) =>
                     /\ passed <=> ExactBearer(req[r].event, token)
                     /\ ~passed => (Returned(r) /\ StatusCode(r) = 401)

\* C20: _extract_client_id looks the accepted aliases up without regard to
\* case: when some alias is present with a non-empty string value the
\* extraction succeeds and returns a non-empty string that such a header
\* carries; it fails, with 401, only when no alias carries a non-empty string.
C20_AnyAliasSuffices ==
    \A r \in Reqs :
        ( req[r].h = "lambada" /\ "extract_client_id" \in StepsOf(r) ) =>
            LET event == req[r].event
                failed == LastStep(r) = "extract_client_id"
                client_id == req[r].local.client_id
            IN /\ ~NoClientIdHeader(event) =>
                     /\ ~failed
                     /\ IsStr(client_id) /\ Len(client_id.s) > 0
                     /\ \E i \in 1..Len(event.headers) :
                           /\ Lower(event.headers[i].name) \in
                                 {ClientIdAliases[j] : j \in 1..Len(ClientIdAliases)}
                           /\ event.headers[i].val = client_id
               /\ failed =>
                     /\ NoClientIdHeader(event)
                     /\ Returned(r)
                     /\ StatusCode(r) = 401

\* the value of the X-Correlation-Id header of the event, header names being
\* case-insensitive; None without one
CorrelationHeader(event) ==
    IF HeadersIsDict(event)
    THEN DictGet(NormalizeHeaders(event.headers, <<>>), "x-correlation-id")
    ELSE Null

\* C21: every request that comes to the choice of its correlation id gets one,
\* by strict precedence: the X-Correlation-Id header when present and
\* non-empty, else the correlationId field of the parsed input when present and
\* non-empty, else a freshly generated identifier; a supplied value is used
\* unchanged and fresh identifiers differ between requests.
C21_CorrelationPrecedence ==
    /\ \A r \in Reqs :
          "correlation_id" \in StepsOf(r) =>
              LET from_header == CorrelationHeader(req[r].event)
                  from_input == PayloadOf(r).obj.correlationId
                  chosen == req[r].local.correlation_id
              IN /\ req[r].local.exc = NoExc
                 /\ Truthy(from_header) => chosen = from_header
                 /\ (~Truthy(from_header) /\ Truthy(from_input)) => chosen = from_input
                 /\ (~Truthy(from_header) /\ ~Truthy(from_input)) =>
                       (chosen.s = <<"uuid4">> /\ chosen.n \in 1..uuidCount)
    /\ \A r1, r2 \in Reqs :
          ( /\ r1 # r2
            /\ req[r1].local.uuids = 1
            /\ req[r2].local.uuids = 1 )
          => req[r1].local.correlation_id # req[r2].local.correlation_id

\* C22: in every state the store holds at most one status record per document,
\* keyed by "DCE#" + document id and "LATEST", with status
\* CANCELLATION_REQUESTED and operationStatus RECEIVED; no step deletes a
\* record: a document that has a record has one in every later state.
C22_OneRecordPerDocument ==
    /\ [](\A item \in store :
            /\ Cardinality(RecordsOf(store, item.pk)) = 1
            /\ item.sk = "LATEST"
            /\ SubSeq(item.pk, 1, 1) = <<"DCE#">>
            /\ item.status = "CANCELLATION_REQUESTED"
            /\ item.operationStatus = "RECEIVED"
            /\ \E r \in Reqs :
                  /\ Count(req[r].calls, "update_item") = 1
                  /\ item.pk = ItemKey(RequestFields(r).docId))
    /\ [][\A item \in store : RecordsOf(store', item.pk) # {}]_vars

\* two documents have a record each
C22_Witness ==
    \E a, b \in store :
        /\ a.pk # b.pk
        /\ Cardinality(store) = 2

\* the payload passes the three checks of the minimal validator
MinimalValid(doc) ==
    /\ doc.isDict
    /\ Truthy(doc.obj.id)
    /\ Truthy(doc.obj.cancelReason)
    /\ IsStr(doc.obj.cancelReason)

\* C23: in lambada_handler, the minimal validator returns, for a payload that
\* passes its checks, a record whose client_id is the empty placeholder; the
\* handler fills in the client id of the headers, so that the request reaches
\* the dispatch with a non-empty string clientId, and every message and every
\* status record of the handler carries that non-empty string.
C23_ClientIdFilledBeforeDispatch ==
    \A r \in Reqs :
        ( /\ req[r].h = "lambada"
          /\ "validate" \in StepsOf(r)
          /\ MinimalValid(PayloadOf(r)) )
        => /\ ValidatePayloadMinimal(PayloadOf(r), clock).exc = NoExc
           /\ ValidatePayloadMinimal(PayloadOf(r), clock).v.client_id = Str(<<>>)
           /\ req[r].local.validated.client_id = req[r].local.client_id
           /\ IsStr(req[r].local.validated.client_id)
           /\ Len(req[r].local.validated.client_id.s) > 0
           /\ \A i \in 1..Len(req[r].sent) :
                 req[r].sent[i].MessageBody.clientId = req[r].local.client_id
           /\ \A i \in 1..Len(req[r].wrote) :
                 req[r].wrote[i].clientId = req[r].local.client_id

\* the step in which the update_item of invocation r raised
UpsertRaised(r) ==
    /\ req[r].pc = "upsert"
    /\ req'[r].pc = "done"
    /\ Count(req'[r].faults, "update_item") > 0

\* C24: no partial rollback. When send_message of a request was accepted and
\* its update_item raises, that step changes neither the queue nor the store;
\* the request made one send and wrote nothing, its message is in the queue
\* from then on (no step ever takes a message out), and its response is an
\* error, not 201.
C24_NoPartialRollback ==
    /\ [](\A r \in Reqs :
            Count(req[r].faults, "update_item") > 0 =>
                /\ Returned(r)
                /\ StatusCode(r) # 201
                /\ StatusCode(r) >= 400
                /\ req[r].response.error # ""
                /\ Count(req[r].calls, "send_message") = 1
                /\ Len(req[r].sent) = 1
                /\ req[r].wrote = <<>>
                /\ \E i \in 1..Len(enqueued) : enqueued[i] = req[r].sent[1])
    /\ [][ /\ IsPrefix(enqueued, enqueued')
           /\ \A r \in Reqs :
                UpsertRaised(r) => (enqueued' = enqueued /\ store' = store) ]_vars

\* a request whose write failed while its message is in the queue and the
\* store has no record of its document
C24_Witness ==
    \E r \in Reqs :
        /\ Count(req[r].faults, "update_item") > 0
        /\ Returned(r)
        /\ \E i \in 1..Len(enqueued) : enqueued[i] = req[r].sent[1]
        /\ RecordsOf(store, ItemKey(RequestFields(r).docId)) = {}

\* C25: the minimal validate_payload is total over object payloads and checks
\* in a fixed order: a missing or empty id fails with "id is required"
\* whatever cancelReason is; else a missing or empty cancelReason fails with
\* "cancelReason is required"; else a cancelReason that is no string fails with
\* "cancelReason must be a string"; else it returns a validated record whose
\* document id is the non-empty string form of id and whose cancel reason is
\* the cancelReason of the input.
C25_MinimalValidatorTotal ==
    \A r \in Reqs :
        ( /\ req[r].h = "lambada"
          /\ "validate" \in StepsOf(r)
          /\ PayloadOf(r).isDict )
        => LET obj == PayloadOf(r).obj
               res == ValidatePayloadMinimal(PayloadOf(r), clock)
           IN IF ~Truthy(obj.id)
              THEN /\ res.exc = ValidationError("id is required")
                   /\ StatusCode(r) = 400
              ELSE IF ~Truthy(obj.cancelReason)
              THEN /\ res.exc = ValidationError("cancelReason is required")
                   /\ StatusCode(r) = 400
              ELSE IF ~IsStr(obj.cancelReason)
              THEN /\ res.exc = ValidationError("cancelReason must be a string")
                   /\ StatusCode(r) = 400
              ELSE /\ res.exc = NoExc
                   /\ res.v.document_id = PyStr(obj.id)
                   /\ Len(res.v.document_id.s) > 0
                   /\ res.v.cancel_reason = obj.cancelReason

\* the pieces of ALLOWED_CLIENT_IDS between commas that are not blank, trimmed
ConfiguredClientIds ==
    {Strip(environ.ALLOWED_CLIENT_IDS[i]) : i \in 1..Len(environ.ALLOWED_CLIENT_IDS)}
        \ {<<>>}

\* C26: in the allow-list handler a request that passed validation is turned
\* away by the authorization step exactly when ALLOWED_CLIENT_IDS names at
\* least one client id and the clientId of the payload is not among them; when
\* it is unset, empty or only blanks and commas the step rejects nothing and
\* every validated request goes on to the dispatch.
C26_AllowListOnlyWhenConfigured ==
    \A r \in Reqs :
        ( req[r].h = "envelope" /\ "authorize" \in StepsOf(r) ) =>
            LET rejected == LastStep(r) = "authorize"
                clientId == PayloadOf(r).obj.clientId
            IN /\ rejected <=>
                     (ConfiguredClientIds # {} /\ clientId.s \notin ConfiguredClientIds)
               /\ rejected => (StatusCode(r) = 403 /\ NoDispatch(r))
               /\ ~rejected => "correlation_id" \in StepsOf(r)
               /\ (~rejected /\ req[r].local.exc = NoExc /\ Returned(r)) =>
                     Count(req[r].calls, "send_message") = 1

\* ALLOWED_CLIENT_IDS holds only blanks and commas and a request of a client
\* named nowhere is answered 201
C26_Witness ==
    \E r \in Reqs :
        /\ req[r].h = "envelope"
        /\ Len(environ.ALLOWED_CLIENT_IDS) > 0
        /\ ConfiguredClientIds = {}
        /\ PayloadOf(r).obj.clientId = Another
        /\ StatusCode(r) = 201

\* C27: frame of an invocation. A step of an invocation for document d adds at
\* most one message, for d, at the end of the queue and changes at most the
\* record keyed "DCE#" + d; the other records and the messages already in the
\* queue stay as they are; an invocation makes at most one send and one write;
\* a step that ends an invocation with 400, 401 or 403, and a step of no
\* invocation, change neither the store nor the queue.
C27_Frame ==
    /\ [](\A r \in Reqs :
            /\ Len(req[r].sent) <= 1
            /\ Len(req[r].wrote) <= 1
            /\ StatusCode(r) \in {400, 401, 403} => NoDispatch(r))
    /\ [][ /\ (\A r \in Reqs : req'[r] = req[r]) =>
                (enqueued' = enqueued /\ store' = store)
           /\ \A r \in Reqs :
                req'[r] # req[r] =>
                    LET rq == req'[r]
                        doc == ParseEvent(rq.event).doc
                        d == PyStr(IF rq.h = "lambada" THEN doc.obj.id ELSE doc.obj.dceId)
                    IN /\ \/ enqueued' = enqueued
                          \/ /\ Len(enqueued') = Len(enqueued) + 1
                             /\ IsPrefix(enqueued, enqueued')
                             /\ MessageDocId(enqueued'[Len(enqueued')]) = d
                             /\ req[r].sent = <<>>
                             /\ rq.sent = <<enqueued'[Len(enqueued')]>>
                       /\ \A i \in store : i.pk # ItemKey(d) => i \in store'
                       /\ \A i \in store' : i.pk # ItemKey(d) => i \in store
                       /\ Cardinality(RecordsOf(store', ItemKey(d))) <= 1
                       /\ rq.response.statusCode \in {400, 401, 403} =>
                             (enqueued' = enqueued /\ store' = store) ]_vars

\* two invocations for two documents have each left their message and their
\* record
C27_Witness ==
    \E r1, r2 \in Reqs :
        /\ StatusCode(r1) = 201
        /\ StatusCode(r2) = 201
        /\ req[r1].wrote[1].pk # req[r2].wrote[1].pk
        /\ store = {req[r1].wrote[1], req[r2].wrote[1]}
        /\ Len(enqueued) = 2

\* C28: in lambada_handler, a request with valid credentials, client id and
\* payload has its authorization looked up by one query of the access table,
\* and when that query raises a client or transport error the request is
\* answered 502 and neither send_message nor update_item is called.
C28_LookupFailureIs502 ==
    \A r \in Reqs :
        ( /\ req[r].h = "lambada"
          /\ Returned(r)
          /\ "validate" \in StepsOf(r)
          /\ MinimalValid(PayloadOf(r)) )
        => /\ Count(req[r].calls, "query") = 1
           /\ Count(req[r].faults, "query") > 0 =>
                 /\ StatusCode(r) = 502
                 /\ NoDispatch(r)

\* C29: in the envelope handler with no auth token configured, the choice of
\* the correlation id does not fail on the shape of the headers: whether the
\* headers entry of the event is absent, null or an object, a request with a
\* valid payload and a permitted client gets a correlation id and, without a
\* downstream fault, is answered 201.
C29_HeadersShapeNeverFails ==
    \A r \in Reqs :
        ( /\ req[r].h = "envelope"
          /\ Returned(r)
          /\ ~Truthy(EnvConfigLoad(environ).api_auth_token)
          /\ req[r].event.isDict
          /\ req[r].event.headersKind \in {"absent", "null", "dict"}
          /\ "authorize" \in StepsOf(r)
          /\ LastStep(r) # "authorize"
          /\ req[r].faults = <<>> )
        => /\ req[r].local.exc = NoExc
           /\ req[r].local.correlation_id # Null
           /\ StatusCode(r) = 201

====
